---- MODULE Spec2Model ----
(***************************************************************************)
(* SwapBytes: the query-correlation engine, the private-room negotiation   *)
(* and the reputation update of a peer-to-peer chat node                   *)
(* (src/src/main.rs, input.rs, behaviour.rs, util.rs).                     *)
(*                                                                         *)
(* Every peer runs the single event loop of main(): one select! arm is     *)
(* taken at a time and its handler runs to completion, including the       *)
(* stdin reads a handler performs itself (the y/n and rating prompts).     *)
(* A peer's position in that loop is pc[p].  The DHT (libp2p Kademlia),    *)
(* gossipsub and the request/response transport are the environment: a     *)
(* get_record returns a QueryId at once and its result events arrive       *)
(* later carrying the value the store held when the lookup was served.     *)
(*                                                                         *)
(* Strings are sequences of characters; the characters that never matter   *)
(* individually are grouped into one token (a PeerId in base58 is one      *)
(* token, it holds no '-').                                                *)
(***************************************************************************)
EXTENDS Integers, Sequences, FiniteSets, TLC

\* ------------------------------------------------------------------ bounds
\* Each specification bounds the console commands typed over all peers and the
\* FoundRecord events one lookup may yield (one per answering replica).
\* Spec, the /connect negotiation:
MaxConnect == 1
MaxFound == 1
\* SpecRooms, negotiation and /leave:
RoomConnect == 2
RoomLeave == 1
RoomFound == 1
\* SpecKad, the three pending tables under repeated results (commands of any
\* kind, together):
KadCommands == 1
KadFound == 2
\* SpecRating, update_peer_rating on its own:
RatingUpdate == 2
RatingFound == 1
\* SpecFiles, /request lines typed by each peer:
MaxRequest == 1
\* SpecDecode, commands of any kind (together), replicas per lookup, and records
\* of the DHT that hold foreign bytes at one time:
DecodeCommands == 1
DecodeFound == 2
MaxGarbage == 1
\* SpecLeave, /leave and /connect from a private room (together):
LeaveCommands == 2
LeaveFound == 1
\* SpecOffer, FileOffer requests each peer receives:
MaxOffer == 1
\* SpecThird, /connect lines typed over all peers:
ThirdConnect == 1
\* SpecTables, commands of any kind typed while a rating update is pending
\* (together), and replicas per lookup:
TablesCommands == 1
TablesFound == 1
\* SpecIssue, update_peer_rating calls over all peers and replicas per lookup:
IssueUpdate == 1
IssueFound == 1
\* SpecLinear, rating updates of a third node by all peers (together):
LinearUpdate == 2
LinearFound == 1

Peers == {"p1", "p2"}
\* Other nodes of the network, registered and staying in the default room: they
\* only forward gossipsub messages of that topic.
Relays == {"r1"}
RelayNickname == <<"r">>
Nicknames == {<<"a">>, <<"b">>}
\* The nickname a peer may enter at startup: p1 enters "a", the others any
\* (the cases with the names exchanged are the same up to renaming).
NicknameChoices(p) == IF p = "p1" THEN {<<"a">>} ELSE Nicknames
\* Arguments of /connect.
ConnectNames == Nicknames
\* Ratings accepted by the /leave prompt.
Ratings == {-1, 0, 1}

\* Arguments of /request, and what a file may hold (nothing, or some bytes).
FileNames == {<<"f">>}
Contents == {<<>>, <<"d">>}

DASH == "-"
DefaultTopic == <<"default">>
NoPeer == "none"
NoStr == <<>>

VARIABLES
    pc,                     \* position of each peer in main()
    own_nickname,           \* nickname returned by get_and_save_nickname
    topic,                  \* main's `topic` (current IdentTopic)
    subs,                   \* gossipsub subscriptions of each peer
    pending_messages,       \* ChatState.pending_messages
    pending_connections,    \* ChatState.pending_connections
    pending_rating_update,  \* ChatState.pending_rating_update
    nextQuery,              \* next QueryId each Kademlia behaviour hands out
    queries,                \* lookups in flight at the DHT
    issued,                 \* locals of a running update_peer_rating call
    kadEvents,              \* OutboundQueryProgressed events not yet handled
    dht,                    \* the records of the DHT
    net,                    \* request/response messages in flight
    gossip,                 \* gossipsub messages in flight
    prompt,                 \* the request a peer is prompting its user about
    nextUuid,               \* Uuid::new_v4() draws so far
    budget,                 \* console commands left to type; replicas per lookup
    hResume,                \* history: what each resume run did, per QueryId
    hUpdates,               \* history: the update_peer_rating calls, in order
    fileNet,                \* FileRequest / FileResponse messages in flight
    filePrompt,             \* the FileRequest a peer is prompting its user about
    disk,                   \* the files of each peer's working directory
    nextRequest,            \* next OutboundRequestId of each peer's file requests
    hResponses,             \* history: the FileResponse messages handled
    hSent                   \* history: the send_response calls of the file handlers

peerVars == <<pc, own_nickname>>
roomVars == <<topic, subs>>
tableVars == <<pending_messages, pending_connections, pending_rating_update>>
queryVars == <<nextQuery, queries, issued>>
netVars == <<net, gossip, prompt, nextUuid>>
histVars == <<hResume, hUpdates>>
fileVars == <<fileNet, filePrompt, disk, nextRequest, hResponses, hSent>>

vars == <<pc, own_nickname, topic, subs, pending_messages, pending_connections,
          pending_rating_update, nextQuery, queries, issued, kadEvents, dht, net,
          gossip, prompt, nextUuid, budget, hResume, hUpdates, fileNet,
          filePrompt, disk, nextRequest, hResponses, hSent>>

\* ------------------------------------------------------- strings and keys
\* PeerId::to_string / Display: one base58 token.
PeerIdToString(p) == <<p>>

\* PeerId::from_str: only a well-formed base58 multihash parses.
PeerIdFromStr(s) == IF s \in {PeerIdToString(p) : p \in Peers} THEN s[1] ELSE NoPeer

\* Uuid::new_v4().to_string(): hyphenated groups, distinct for each draw.
UuidToString(k) == [i \in 1..k |-> "x"] \o <<DASH, "4">>

\* kad::RecordKey::new(&peer_id.to_bytes())
PeerKey(p) == <<p>>

\* kad::RecordKey::new(&format!("nickname:{}", nickname))
ReverseKey(nick) == <<"nickname:">> \o nick

Keys ==
    {PeerKey(p) : p \in Peers \cup Relays}
        \cup {ReverseKey(n) : n \in ConnectNames \cup {RelayNickname}}

\* str::split('-'): the pieces of s between the dashes.
RECURSIVE Split(_)
Split(s) ==
    IF \A i \in 1..Len(s) : s[i] # DASH THEN <<s>>
    ELSE LET i == CHOOSE j \in 1..Len(s) :
                      s[j] = DASH /\ \A k \in 1..(j - 1) : s[k] # DASH
         IN <<SubSeq(s, 1, i - 1)>> \o Split(SubSeq(s, i + 1, Len(s)))

\* Variant: the two participants exchanged.
RoomIdSwapped(initiator_nickname, target_nickname, initiator_peer_id, other_peer_id, uuid) ==
    target_nickname \o <<DASH>> \o initiator_nickname \o <<DASH>>
        \o PeerIdToString(other_peer_id) \o <<DASH>>
        \o PeerIdToString(initiator_peer_id) \o <<DASH>> \o UuidToString(uuid)

\* format!("{}-{}-{}-{}-{}", initiator_nickname, peer.nickname,
\*         initiator_peer_id, other_peer_id, Uuid::new_v4().to_string())
RoomId(initiator_nickname, target_nickname, initiator_peer_id, other_peer_id, uuid) ==
    initiator_nickname \o <<DASH>> \o target_nickname \o <<DASH>>
        \o PeerIdToString(initiator_peer_id) \o <<DASH>>
        \o PeerIdToString(other_peer_id) \o <<DASH>> \o UuidToString(uuid)

\* ------------------------------------------------------------ DHT values
NoRecord == [kind |-> "none", nickname |-> NoStr, rating |-> 0, peer |-> NoPeer]

\* Variant: the nickname left out of the record.
PeerDataBytesAnonymous(nick, rating) ==
    [kind |-> "PeerData", nickname |-> NoStr, rating |-> rating, peer |-> NoPeer]

\* serde_json::to_vec(&PeerData { nickname, rating })
PeerDataBytes(nick, rating) ==
    [kind |-> "PeerData", nickname |-> nick, rating |-> rating, peer |-> NoPeer]

\* peer_id.to_bytes().to_vec()
PeerIdBytes(p) == [kind |-> "PeerId", nickname |-> NoStr, rating |-> 0, peer |-> p]

\* Bytes put by another participant of the DHT, neither JSON nor a multihash.
Garbage == [kind |-> "garbage", nickname |-> NoStr, rating |-> 0, peer |-> NoPeer]

\* Variants: no value decodes as PeerData; every value does.
IsPeerDataNever(value) == FALSE

IsPeerDataAlways(value) == TRUE

\* serde_json::from_slice::<PeerData>(..).is_ok(): only JSON of that shape decodes.
IsPeerData(value) == value.kind = "PeerData"

\* PeerId::from_bytes(..).is_ok(): only a multihash decodes.
IsPeerId(value) == value.kind = "PeerId"

\* -------------------------------------------------------------- HashMaps
EmptyMap == [q \in {} |-> 0]

\* HashMap::insert
insert(map, id, v) == [q \in DOMAIN map \cup {id} |-> IF q = id THEN v ELSE map[q]]

\* Variant: a lookup that leaves the entry in the map.
removeKeeps(map, id) == map

\* HashMap::remove: the map without the entry.
remove(map, id) == [q \in DOMAIN map \ {id} |-> map[q]]

ConnEntry(kind, other, nick, init) ==
    [kind |-> kind, other |-> other, nickname |-> nick, initiator |-> init]

\* ------------------------------------------------------------- messages
IsInviteKind(kind) == kind = "PrivateRoomRequest"

Msg(kind, from, to, room, nick) ==
    [kind |-> kind, from |-> from, to |-> to, room_id |-> room, initiator_nickname |-> nick]

NoMsg == Msg("none", NoPeer, NoPeer, NoStr, NoStr)

\* RequestType::FileRequest(filename, peer) and ResponseType::FileResponse(data,
\* filename), with the request id the transport correlates them by.
FileMsg(kind, from, to, filename, data, request_id) ==
    [kind |-> kind, from |-> from, to |-> to, filename |-> filename, data |-> data,
     request_id |-> request_id]

NoFileMsg == FileMsg("none", NoPeer, NoPeer, NoStr, <<>>, 0)

\* OutboundRequestId as {} formats it.
RequestIdToString(n) == [i \in 1..n |-> "i"]

\* format!("received_file_{}_{}", filename, request_id)
ReceivedName(filename, request_id) ==
    <<"received_file_">> \o filename \o <<"_">> \o RequestIdToString(request_id)

\* History: send_response(channel, response) called for request after the user
\* entered line, and whether it returned Ok.
Sent(request, line, response, ok) ==
    [request |-> request, line |-> line, response |-> response, ok |-> ok]

\* ResponseType::FileOfferResponse(bool) for request m; the bool is carried in
\* the filename field.
FileOfferResponse(m, accepted) ==
    FileMsg("FileOfferResponse", m.to, m.from,
            IF accepted THEN <<"true">> ELSE <<"false">>, <<>>, m.request_id)

\* format!("received_file_{}", filename)
OfferedName(filename) == <<"received_file_">> \o filename

\* What a read or a write that may stop at an error has transferred.
Prefixes(data) == {SubSeq(data, 1, k) : k \in 0..Len(data)}


\* total bounds the commands of all kinds together.
Budget(connect, leave, publish, update, total, found) ==
    [connect |-> connect, leave |-> leave, publish |-> publish, update |-> update,
     total |-> total, found |-> found]

Left(what) == budget[what] > 0 /\ budget.total > 0

Spend(what) == [budget EXCEPT ![what] = @ - 1, !.total = @ - 1]

\* The locals of update_peer_rating between its two statements: the QueryId
\* get_record returned, and the arguments peer_id and rating.
Call(query_id, peer_id, rating) ==
    [query_id |-> query_id, peer_id |-> peer_id, rating |-> rating]

NoCall == Call(0, NoPeer, 0)

\* ------------------------------------------------------------------ Init
\* PeerData { nickname, rating: 0 }
InitialRating == 0

\* The DHT before any of Peers has registered: the PeerRecords and the reverse
\* index entries of the relays.
InitialStore ==
    [k \in Keys |-> IF k \in {PeerKey(r) : r \in Relays}
                    THEN PeerDataBytes(RelayNickname, InitialRating)
                    ELSE IF k = ReverseKey(RelayNickname)
                    THEN PeerIdBytes(CHOOSE r \in Relays : TRUE)
                    ELSE NoRecord]

\* main() up to the call of get_and_save_nickname: empty tables, subscribed
\* to "default"; d is what the working directories hold.
StartWith(b, d) ==
    /\ budget = b
    /\ fileNet = {}
    /\ filePrompt = [p \in Peers |-> NoFileMsg]
    /\ disk = d
    /\ nextRequest = [p \in Peers |-> 1]
    /\ hResponses = {}
    /\ hSent = {}
    /\ pc = [p \in Peers |-> "start"]
    /\ own_nickname = [p \in Peers |-> NoStr]
    /\ topic = [p \in Peers |-> DefaultTopic]
    /\ subs = [p \in Peers |-> {DefaultTopic}]
    /\ pending_messages = [p \in Peers |-> EmptyMap]
    /\ pending_connections = [p \in Peers |-> EmptyMap]
    /\ pending_rating_update = [p \in Peers |-> EmptyMap]
    /\ nextQuery = [p \in Peers |-> 1]
    /\ queries = [p \in Peers |-> {}]
    /\ issued = [p \in Peers |-> NoCall]
    /\ kadEvents = [p \in Peers |-> {}]
    /\ dht = InitialStore
    /\ net = {}
    /\ gossip = {}
    /\ prompt = [p \in Peers |-> NoMsg]
    /\ nextUuid = 1
    /\ hResume = [p \in Peers |-> EmptyMap]
    /\ hUpdates = <<>>

Start(b) == StartWith(b, [p \in Peers |-> EmptyMap])

\* ------------------------------------------------------------- Kademlia
Query(id, key, found) == [id |-> id, key |-> key, found |-> found]

KadEvent(id, kind, key, value) == [id |-> id, kind |-> kind, key |-> key, value |-> value]

\* Variant: the QueryId handed out before is handed out again.
get_recordReused(p, key) ==
    /\ nextQuery' = nextQuery
    /\ queries' = [queries EXCEPT ![p] = @ \cup {Query(nextQuery[p], key, 0)}]
    /\ UNCHANGED issued

\* kademlia.get_record(key): hands out the next QueryId and starts the lookup.
\* The caller reads the id as nextQuery[p].
get_record(p, key) ==
    /\ nextQuery' = [nextQuery EXCEPT ![p] = @ + 1]
    /\ queries' = [queries EXCEPT ![p] = @ \cup {Query(nextQuery[p], key, 0)}]
    /\ UNCHANGED issued

\* A replica answers a lookup with the record it holds now.
DhtFound(p) ==
    \E q \in queries[p] :
        /\ \A e \in kadEvents[p] : e.id # q.id
        /\ dht[q.key] # NoRecord
        /\ kadEvents' = [kadEvents EXCEPT
               ![p] = @ \cup {KadEvent(q.id, "FoundRecord", q.key, dht[q.key])}]
        /\ queries' = [queries EXCEPT
               ![p] = (@ \ {q}) \cup
                      (IF q.found + 1 < budget.found
                       THEN {Query(q.id, q.key, q.found + 1)} ELSE {})]
        /\ UNCHANGED <<peerVars, fileVars, roomVars, tableVars, nextQuery, issued, dht,
                       netVars, budget, histVars>>

\* A lookup that found nothing ends with GetRecordError::NotFound or another
\* GetRecordError (Timeout, QuorumFailed); no event follows it.
DhtFail(p) ==
    \E q \in queries[p], kind \in {"NotFound", "Error"} :
        /\ q.found = 0
        /\ kadEvents' = [kadEvents EXCEPT
               ![p] = @ \cup {KadEvent(q.id, kind, q.key, NoRecord)}]
        /\ queries' = [queries EXCEPT ![p] = @ \ {q}]
        /\ UNCHANGED <<peerVars, fileVars, roomVars, tableVars, nextQuery, issued, dht,
                       netVars, budget, histVars>>

\* Another participant of the DHT overwrites a stored record with bytes of its
\* own.
ForeignPut(k) ==
    /\ dht[k] \notin {NoRecord, Garbage}
    /\ Cardinality({j \in Keys : dht[j] = Garbage}) < MaxGarbage
    /\ dht' = [dht EXCEPT ![k] = Garbage]
    /\ UNCHANGED <<peerVars, roomVars, tableVars, queryVars, kadEvents, netVars,
                   budget, histVars, fileVars>>

\* ------------------------------------------------------------- startup
\* get_and_save_nickname: the PeerRecord with rating 0 and the reverse index
\* are put, main enters its loop.
Register(p) ==
    \E nick \in NicknameChoices(p) :
        /\ pc[p] = "start"
        /\ own_nickname' = [own_nickname EXCEPT ![p] = nick]
        /\ dht' = [dht EXCEPT ![PeerKey(p)] = PeerDataBytes(nick, InitialRating),
                              ![ReverseKey(nick)] = PeerIdBytes(p)]
        /\ pc' = [pc EXCEPT ![p] = "running"]
        /\ UNCHANGED <<roomVars, tableVars, queryVars, kadEvents, netVars, budget,
                       histVars, fileVars>>

\* ------------------------------------------------------- console input
\* handle_input, "/exit": std::process::exit(0).
Exit(p) ==
    /\ pc[p] = "running"
    /\ pc' = [pc EXCEPT ![p] = "exited"]
    /\ UNCHANGED <<own_nickname, fileVars, roomVars, tableVars, queryVars, kadEvents, dht,
                   netVars, budget, histVars>>

\* Variant: every topic taken for the default room.
IsDefaultAlways(t) == TRUE

\* topic_hash.as_str() != "default" of "/connect"
IsDefault(t) == t = DefaultTopic

\* handle_input, "/connect <peer nickname>" (two whitespace-separated parts).
ConnectWith(p, peer_nickname) ==
    /\ pc[p] = "running"
    /\ IF ~IsDefault(topic[p])
       THEN UNCHANGED vars
       ELSE /\ Left("connect")
            /\ budget' = Spend("connect")
            /\ get_record(p, ReverseKey(peer_nickname))
            /\ pending_connections' = [pending_connections EXCEPT
                   ![p] = insert(@, nextQuery[p],
                                 ConnEntry("NicknameLookup", NoPeer, own_nickname[p], p))]
            /\ UNCHANGED <<peerVars, fileVars, roomVars, pending_messages,
                           pending_rating_update, kadEvents, dht, netVars,
                           histVars>>

\* "/connect" with the nickname of one of Peers, registered or not.
Connect(p) == \E peer_nickname \in ConnectNames : ConnectWith(p, peer_nickname)

\* "/connect" with the nickname of a node outside Peers.
ConnectRelay(p) == ConnectWith(p, RelayNickname)

\* handle_input, "/leave", lines 57-71: the other participant's PeerId string is
\* parts[3] when parts[0] is the own nickname and parts[2] otherwise.
OtherPeerIdStr(p) ==
    LET parts == Split(topic[p])
    IN IF parts[1] = own_nickname[p] THEN parts[4] ELSE parts[3]

\* handle_input, "/leave" up to the rating prompt: the handler then reads stdin
\* itself, inside the select! arm.
Leave(p) ==
    /\ pc[p] = "running"
    /\ IF topic[p] # DefaultTopic
       THEN /\ Left("leave")
            /\ budget' = Spend("leave")
            /\ pc' = [pc EXCEPT ![p] = "prompt_rating"]
            /\ UNCHANGED <<own_nickname, fileVars, roomVars, tableVars, queryVars, kadEvents,
                           dht, netVars, histVars>>
       ELSE UNCHANGED vars

\* History: the update_peer_rating call u has fetched the record and written it back.
UpdateDone(u) ==
    /\ u.id \in DOMAIN hResume[u.peer]
    /\ hResume[u.peer][u.id][1] = "rating_updated"

\* update_peer_rating(swarm, peer_id, rating, state); the history notes whether
\* every earlier update of the same target had written back by now (quiet).
update_peer_rating(p, peer_id, rating) ==
    /\ get_record(p, PeerKey(peer_id))
    /\ pending_rating_update' = [pending_rating_update EXCEPT
           ![p] = insert(@, nextQuery[p], rating)]
    /\ hUpdates' = Append(hUpdates,
           [peer |-> p, id |-> nextQuery[p], target |-> peer_id, delta |-> rating,
            quiet |-> \A i \in 1..Len(hUpdates) :
                          hUpdates[i].target = peer_id => UpdateDone(hUpdates[i])])

\* Variant: the current topic stays subscribed.
LeaveSubsKeeps(s, current) == s \cup {DefaultTopic}

\* gossipsub unsubscribe(topic), subscribe("default") of "/leave".
LeaveSubs(s, current) == (s \ {current}) \cup {DefaultTopic}

\* handle_input, "/leave" from a valid rating line to the end of the handler.
RateAnswer(p) ==
    \E rating \in Ratings :
        /\ pc[p] = "prompt_rating"
        /\ LET other_peer_id == PeerIdFromStr(OtherPeerIdStr(p))
           IN IF other_peer_id # NoPeer
              THEN update_peer_rating(p, other_peer_id, rating)
              ELSE UNCHANGED <<queryVars, pending_rating_update, hUpdates>>
        /\ subs' = [subs EXCEPT ![p] = LeaveSubs(@, topic[p])]
        /\ topic' = [topic EXCEPT ![p] = DefaultTopic]
        /\ pc' = [pc EXCEPT ![p] = "running"]
        /\ UNCHANGED <<own_nickname, fileVars, pending_messages, pending_connections, kadEvents,
                       dht, netVars, budget, hResume>>

\* update_peer_rating called on its own, as "/leave" calls it.
UpdatePeerRating(p) ==
    \E peer_id \in Peers \ {p}, rating \in Ratings :
        /\ pc[p] = "running"
        /\ pc[peer_id] # "start"
        /\ Left("update")
        /\ budget' = Spend("update")
        /\ update_peer_rating(p, peer_id, rating)
        /\ UNCHANGED <<peerVars, fileVars, roomVars, pending_messages, pending_connections,
                       kadEvents, dht, netVars, hResume>>

\* update_peer_rating called for a node outside Peers that both peers shared a
\* private room with.
UpdateRelayRating(p) ==
    \E peer_id \in Relays, rating \in Ratings :
        /\ pc[p] = "running"
        /\ Left("update")
        /\ budget' = Spend("update")
        /\ update_peer_rating(p, peer_id, rating)
        /\ UNCHANGED <<peerVars, fileVars, roomVars, pending_messages, pending_connections,
                       kadEvents, dht, netVars, hResume>>

\* update_peer_rating, its first statement on its own: the query is started and
\* its id is held in a local; the handler has not returned to the loop.
IssueRating(p) ==
    \E peer_id \in Peers \ {p}, rating \in Ratings :
        /\ pc[p] = "running"
        /\ pc[peer_id] # "start"
        /\ Left("update")
        /\ budget' = Spend("update")
        /\ nextQuery' = [nextQuery EXCEPT ![p] = @ + 1]
        /\ queries' = [queries EXCEPT
               ![p] = @ \cup {Query(nextQuery[p], PeerKey(peer_id), 0)}]
        /\ issued' = [issued EXCEPT ![p] = Call(nextQuery[p], peer_id, rating)]
        /\ pc' = [pc EXCEPT ![p] = "registering"]
        /\ UNCHANGED <<own_nickname, fileVars, roomVars, tableVars, kadEvents, dht,
                       netVars, histVars>>

\* update_peer_rating, its second statement: the insert, after which the handler
\* returns to the loop.
InsertRating(p) ==
    LET call == issued[p]
    IN /\ pc[p] = "registering"
       /\ pending_rating_update' = [pending_rating_update EXCEPT
              ![p] = insert(@, call.query_id, call.rating)]
       /\ hUpdates' = Append(hUpdates,
              [peer |-> p, id |-> call.query_id, target |-> call.peer_id,
               delta |-> call.rating,
               quiet |-> \A i \in 1..Len(hUpdates) :
                             hUpdates[i].target = call.peer_id => UpdateDone(hUpdates[i])])
       /\ issued' = [issued EXCEPT ![p] = NoCall]
       /\ pc' = [pc EXCEPT ![p] = "running"]
       /\ UNCHANGED <<own_nickname, fileVars, roomVars, pending_messages,
                      pending_connections, nextQuery, queries, kadEvents, dht, netVars,
                      budget, hResume>>

\* handle_input, any other line: gossipsub.publish(topic, line) reaches the other
\* subscribers of the topic.
Publish(p) ==
    /\ pc[p] = "running"
    /\ Left("publish")
    /\ budget' = Spend("publish")
    /\ gossip' = gossip \cup
           {[to |-> m, source |-> p, topic |-> topic[p]] :
                m \in {x \in Peers \ {p} : topic[p] \in subs[x]}}
    /\ UNCHANGED <<peerVars, fileVars, roomVars, tableVars, queryVars, kadEvents, dht, net,
                   prompt, nextUuid, histVars>>

\* -------------------------------------------------------------- gossipsub
\* The peers a message may reach p through: its publisher, or another subscriber
\* of the topic that forwards it.
Forwarders(g, p) ==
    {g.source} \cup {f \in Peers \ {p, g.source} : g.topic \in subs[f]}
        \cup (IF g.topic = DefaultTopic THEN Relays ELSE {})

\* handle_chat_event, gossipsub::Event::Message
handle_chat_event(p) ==
    \E g \in gossip :
        \E propagation_source \in Forwarders(g, p) :
            /\ pc[p] = "running"
            /\ g.to = p
            /\ gossip' = gossip \ {g}
            /\ get_record(p, PeerKey(propagation_source))
            /\ pending_messages' = [pending_messages EXCEPT
                   ![p] = insert(@, nextQuery[p],
                                 [peer |-> propagation_source, source |-> g.source])]
            /\ UNCHANGED <<peerVars, fileVars, roomVars, pending_connections,
                           pending_rating_update, kadEvents, dht, net, prompt,
                           nextUuid, budget, histVars>>

\* ------------------------------------------------- handle_kademlia_event
\* History: the resume run of each handled event, per QueryId, in order.
Resumed(p, id, what) ==
    [hResume EXCEPT ![p] =
        insert(hResume[p], id,
               (IF id \in DOMAIN hResume[p] THEN hResume[p][id] ELSE <<>>) \o <<what>>)]

\* Variant: no comparison with the local PeerId.
IsLocalNever(peer_id, p) == FALSE

\* peer_id == *swarm.local_peer_id() of the NicknameLookup branch.
IsLocal(peer_id, p) == peer_id = p

\* Variant: the request goes to a peer other than the one looked up.
InviteTargetOther(entry) == CHOOSE q \in Peers : q # entry.initiator

\* The peer the PrivateRoomRequest goes to: other_peer_id of the PeerData entry.
InviteTarget(entry) == entry.other

\* Variant: the delta subtracted.
NewRatingNegated(rating, delta) == rating - delta

\* Variant: the delta stored in place of the sum.
NewRatingDelta(rating, delta) == delta

\* peer.rating + rating
NewRating(rating, delta) == rating + delta

\* FoundRecord, pending_messages branch: the message is printed with the
\* nickname and rating when the record decodes, with the PeerId otherwise.
FoundForMessage(p, ev) ==
    /\ pending_messages' = [pending_messages EXCEPT ![p] = remove(@, ev.id)]
    /\ hResume' = Resumed(p, ev.id,
                          IF IsPeerData(ev.value) THEN "message" ELSE "message_raw")
    /\ UNCHANGED <<pc, own_nickname, fileVars, roomVars, pending_connections,
                   pending_rating_update, queryVars, dht, net, gossip, prompt,
                   nextUuid, budget, hUpdates>>

\* FoundRecord, pending_connections branch.
FoundForConnection(p, ev) ==
    LET request_type == pending_connections[p][ev.id]
        removed == remove(pending_connections[p], ev.id)
    IN IF request_type.kind = "NicknameLookup"
       THEN IF IsPeerId(ev.value) /\ ~IsLocal(ev.value.peer, p)
            THEN /\ get_record(p, PeerKey(ev.value.peer))
                 /\ pending_connections' = [pending_connections EXCEPT
                        ![p] = insert(removed, nextQuery[p],
                                      ConnEntry("PeerData", ev.value.peer,
                                                request_type.nickname,
                                                request_type.initiator))]
                 /\ hResume' = Resumed(p, ev.id, "peer_data_lookup")
                 /\ UNCHANGED <<pc, own_nickname, fileVars, roomVars, pending_messages,
                                pending_rating_update, dht, net, gossip, prompt,
                                nextUuid, budget, hUpdates>>
            ELSE /\ pending_connections' = [pending_connections EXCEPT ![p] = removed]
                 /\ hResume' = Resumed(p, ev.id,
                                       IF IsPeerId(ev.value) THEN "connect_to_yourself"
                                       ELSE "invalid_peer_id")
                 /\ UNCHANGED <<pc, own_nickname, fileVars, roomVars, pending_messages,
                                pending_rating_update, queryVars, dht, net, gossip,
                                prompt, nextUuid, budget, hUpdates>>
       ELSE /\ pending_connections' = [pending_connections EXCEPT ![p] = removed]
            /\ IF IsPeerData(ev.value)
               THEN /\ net' = net \cup
                           {Msg("PrivateRoomRequest", p, InviteTarget(request_type),
                                RoomId(request_type.nickname, ev.value.nickname,
                                       request_type.initiator, request_type.other,
                                       nextUuid),
                                request_type.nickname)}
                    /\ nextUuid' = nextUuid + 1
                    /\ hResume' = Resumed(p, ev.id, "request_sent")
               ELSE /\ hResume' = Resumed(p, ev.id, "invalid_peer_data")
                    /\ UNCHANGED <<net, nextUuid>>
            /\ UNCHANGED <<pc, own_nickname, fileVars, roomVars, pending_messages,
                           pending_rating_update, queryVars, dht, gossip, prompt,
                           budget, hUpdates>>

\* FoundRecord, pending_rating_update branch: the record is written back under
\* the key it was read from; put_record(..).expect(..) panics when the put fails.
FoundForRating(p, ev) ==
    LET rating == pending_rating_update[p][ev.id]
    IN /\ pending_rating_update' = [pending_rating_update EXCEPT ![p] = remove(@, ev.id)]
       /\ IF ~IsPeerData(ev.value)
          THEN /\ hResume' = Resumed(p, ev.id, "rating_error")
               /\ UNCHANGED <<pc, dht>>
          ELSE \E putOk \in BOOLEAN :
               IF putOk
               THEN /\ dht' = [dht EXCEPT ![ev.key] =
                                   PeerDataBytes(ev.value.nickname,
                                                 NewRating(ev.value.rating, rating))]
                    /\ hResume' = Resumed(p, ev.id, "rating_updated")
                    /\ UNCHANGED pc
               ELSE /\ pc' = [pc EXCEPT ![p] = "crashed"]
                    /\ hResume' = Resumed(p, ev.id, "put_failed")
                    /\ UNCHANGED dht
       /\ UNCHANGED <<own_nickname, fileVars, roomVars, pending_messages, pending_connections,
                      queryVars, net, gossip, prompt, nextUuid, budget, hUpdates>>

\* GetRecord(Err(NotFound)) and GetRecord(Err(err)): only pending_messages is
\* looked at.
FailedLookup(p, ev) ==
    /\ IF ev.id \in DOMAIN pending_messages[p]
       THEN /\ pending_messages' = [pending_messages EXCEPT ![p] = remove(@, ev.id)]
            /\ hResume' = Resumed(p, ev.id, "message_raw")
       ELSE UNCHANGED <<pending_messages, hResume>>
    /\ UNCHANGED <<pc, own_nickname, fileVars, roomVars, pending_connections,
                   pending_rating_update, queryVars, dht, net, gossip, prompt,
                   nextUuid, budget, hUpdates>>

\* Variant: an event is taken while a handler is still running.
AtSelectAlways(p) == TRUE

\* main is at its select!: no handler is running or waiting for a console line.
AtSelect(p) == pc[p] = "running"

handle_kademlia_event(p) ==
    \E ev \in kadEvents[p] :
        /\ AtSelect(p)
        /\ kadEvents' = [kadEvents EXCEPT ![p] = @ \ {ev}]
        /\ IF ev.kind = "FoundRecord"
           THEN IF ev.id \in DOMAIN pending_messages[p]
                THEN FoundForMessage(p, ev)
                ELSE IF ev.id \in DOMAIN pending_connections[p]
                THEN FoundForConnection(p, ev)
                ELSE IF ev.id \in DOMAIN pending_rating_update[p]
                THEN FoundForRating(p, ev)
                ELSE /\ hResume' = Resumed(p, ev.id, "connected_peer")
                     /\ UNCHANGED <<pc, own_nickname, fileVars, roomVars, tableVars, queryVars,
                                    dht, net, gossip, prompt, nextUuid, budget, hUpdates>>
           ELSE FailedLookup(p, ev)

\* --------------------------------------------------- handle_req_res_event
\* Variant: the room is not subscribed to.
JoinSubsNone(s, room_id) == s \ {DefaultTopic}

\* unsubscribe("default"), subscribe(room_id) of both joins.
JoinSubs(s, room_id) == (s \ {DefaultTopic}) \cup {room_id}

\* Request PrivateRoomRequest up to the y/n prompt: the handler then reads stdin
\* itself, inside the select! arm.
ReceiveInvite(p) ==
    \E m \in net :
        /\ pc[p] = "running"
        /\ m.to = p
        /\ m.kind = "PrivateRoomRequest"
        /\ net' = net \ {m}
        /\ prompt' = [prompt EXCEPT ![p] = m]
        /\ pc' = [pc EXCEPT ![p] = "prompt_invite"]
        /\ UNCHANGED <<own_nickname, fileVars, roomVars, tableVars, queryVars, kadEvents, dht,
                       gossip, nextUuid, budget, histVars>>

\* Request PrivateRoomRequest from the y/n line to the end of the handler;
\* send_response fails when the channel has been closed meanwhile.
AnswerInvite(p) ==
    \E response \in {"y", "n"}, sent \in BOOLEAN :
        LET m == prompt[p]
            answer == Msg(IF response = "y" THEN "Accept" ELSE "Reject",
                          p, m.from, m.room_id, NoStr)
        IN /\ pc[p] = "prompt_invite"
           /\ IF response = "y"
              THEN /\ subs' = [subs EXCEPT ![p] = JoinSubs(@, m.room_id)]
                   /\ topic' = [topic EXCEPT ![p] = m.room_id]
              ELSE UNCHANGED <<subs, topic>>
           /\ net' = IF sent THEN net \cup {answer} ELSE net
           /\ prompt' = [prompt EXCEPT ![p] = NoMsg]
           /\ pc' = [pc EXCEPT ![p] = "running"]
           /\ UNCHANGED <<own_nickname, fileVars, tableVars, queryVars, kadEvents, dht, gossip,
                          nextUuid, budget, histVars>>

\* A node outside Peers answers the PrivateRoomRequest it received (it runs the
\* same handler; its user enters y or n).
RelayAnswer(r) ==
    \E m \in net, kind \in {"Accept", "Reject"} :
        /\ m.to = r
        /\ IsInviteKind(m.kind)
        /\ net' = (net \ {m}) \cup {Msg(kind, r, m.from, m.room_id, NoStr)}
        /\ UNCHANGED <<peerVars, fileVars, roomVars, tableVars, queryVars, kadEvents,
                       dht, gossip, prompt, nextUuid, budget, histVars>>

\* Variant: every response taken for an Accept.
IsAcceptAlways(m) == TRUE

\* if let PrivateRoomProtocol::Reject(_) .. else if let PrivateRoomProtocol::Accept(room_id)
IsAccept(m) == m.kind = "Accept"

\* Response PrivateRoomResponse(Accept | Reject).
ReceiveRoomResponse(p) ==
    \E m \in net :
        /\ pc[p] = "running"
        /\ m.to = p
        /\ m.kind \in {"Accept", "Reject"}
        /\ net' = net \ {m}
        /\ IF IsAccept(m)
           THEN /\ subs' = [subs EXCEPT ![p] = JoinSubs(@, m.room_id)]
                /\ topic' = [topic EXCEPT ![p] = m.room_id]
           ELSE UNCHANGED <<subs, topic>>
        /\ UNCHANGED <<pc, own_nickname, fileVars, tableVars, queryVars, kadEvents, dht, gossip,
                       prompt, nextUuid, budget, histVars>>

\* ----------------------------------------------------------- file exchange
\* handle_input, "/request <file>": the request goes to the other participant of
\* the private room, named by the room id as in "/leave".
Request(p) ==
    \E file_path \in FileNames :
        /\ pc[p] = "running"
        /\ IF topic[p] = DefaultTopic
           THEN UNCHANGED vars
           ELSE /\ nextRequest[p] <= MaxRequest
                /\ LET other_peer_id == PeerIdFromStr(OtherPeerIdStr(p))
                   IN IF other_peer_id # NoPeer
                      THEN /\ fileNet' = fileNet \cup
                                  {FileMsg("FileRequest", p, other_peer_id, file_path,
                                           <<>>, nextRequest[p])}
                           /\ nextRequest' = [nextRequest EXCEPT ![p] = @ + 1]
                      ELSE UNCHANGED <<fileNet, nextRequest>>
                /\ UNCHANGED <<peerVars, roomVars, tableVars, queryVars, kadEvents,
                               dht, netVars, budget, histVars, filePrompt, disk,
                               hResponses, hSent>>

\* Request FileRequest up to the y/n prompt: the handler then reads stdin itself,
\* inside the select! arm.  A request a node addressed to itself never arrives
\* (the transport does not dial the local peer, it reports OutboundFailure).
ReceiveFileRequest(p) ==
    \E m \in fileNet :
        /\ pc[p] = "running"
        /\ m.to = p
        /\ m.from # p
        /\ m.kind = "FileRequest"
        /\ fileNet' = fileNet \ {m}
        /\ filePrompt' = [filePrompt EXCEPT ![p] = m]
        /\ pc' = [pc EXCEPT ![p] = "prompt_file"]
        /\ UNCHANGED <<own_nickname, roomVars, tableVars, queryVars, kadEvents, dht,
                       netVars, budget, histVars, disk, nextRequest, hResponses,
                       hSent>>

\* Request FileRequest from the y/n line to the end of the handler.  n sends
\* FileResponse(vec![], "") and unwraps the result; y sends what File::open and
\* read_to_end gave (an error of read_to_end leaves what was read so far), or the
\* empty response when the file cannot be opened.
AnswerFileRequest(p) ==
    \E response \in {"y", "n"}, sent \in BOOLEAN :
        \E buffer \in Prefixes(IF filePrompt[p].filename \in DOMAIN disk[p]
                               THEN disk[p][filePrompt[p].filename] ELSE <<>>) :
            LET m == filePrompt[p]
                rejection == FileMsg("FileResponse", p, m.from, NoStr, <<>>, m.request_id)
                file == FileMsg("FileResponse", p, m.from, m.filename, buffer, m.request_id)
                answer == IF response = "y" /\ m.filename \in DOMAIN disk[p]
                          THEN file ELSE rejection
            IN /\ pc[p] = "prompt_file"
               /\ fileNet' = IF sent THEN fileNet \cup {answer} ELSE fileNet
               /\ pc' = [pc EXCEPT ![p] = IF response = "n" /\ ~sent
                                          THEN "crashed" ELSE "running"]
               /\ filePrompt' = [filePrompt EXCEPT ![p] = NoFileMsg]
               /\ hSent' = hSent \cup {Sent(m, response, answer, sent)}
               /\ UNCHANGED <<own_nickname, roomVars, tableVars, queryVars, kadEvents,
                              dht, netVars, budget, histVars, disk, nextRequest,
                              hResponses>>

\* Variant: no payload taken for empty.
is_emptyNever(file_data) == FALSE

\* file_data.is_empty()
is_empty(file_data) == file_data = <<>>

\* Response FileResponse(file_data, filename): nothing is done for an empty
\* payload; otherwise File::create and write_all, either of which may fail.
ReceiveFileResponse(p) ==
    \E m \in fileNet :
        /\ pc[p] = "running"
        /\ m.to = p
        /\ m.kind = "FileResponse"
        /\ fileNet' = fileNet \ {m}
        /\ hResponses' = hResponses \cup {m}
        /\ IF is_empty(m.data)
           THEN UNCHANGED disk
           ELSE \E created \in BOOLEAN, written \in Prefixes(m.data) :
                    disk' = IF created
                            THEN [disk EXCEPT ![p] =
                                     insert(@, ReceivedName(m.filename, m.request_id),
                                            written)]
                            ELSE disk
        /\ UNCHANGED <<peerVars, roomVars, tableVars, queryVars, kadEvents, dht,
                       netVars, budget, histVars, filePrompt, nextRequest, hSent>>

\* The FileOffer requests p has been sent so far.
OffersTo(p) ==
    {m \in fileNet \cup {filePrompt[p]} \cup {h.request : h \in hSent} :
        m.kind = "FileOffer" /\ m.to = p}

\* A node outside Peers sends RequestType::FileOffer(file_data, filename) to p
\* (no command of this program sends one).
ForeignOffer(p) ==
    \E r \in Relays, filename \in FileNames, file_data \in Contents :
        /\ pc[p] # "start"
        /\ Cardinality(OffersTo(p)) < MaxOffer
        /\ fileNet' = fileNet \cup
               {FileMsg("FileOffer", r, p, filename, file_data,
                        Cardinality(OffersTo(p)) + 1)}
        /\ UNCHANGED <<peerVars, roomVars, tableVars, queryVars, kadEvents, dht,
                       netVars, budget, histVars, filePrompt, disk, nextRequest,
                       hResponses, hSent>>

\* Request FileOffer up to the y/n prompt: the handler then reads stdin itself,
\* inside the select! arm.
ReceiveFileOffer(p) ==
    \E m \in fileNet :
        /\ pc[p] = "running"
        /\ m.to = p
        /\ m.kind = "FileOffer"
        /\ fileNet' = fileNet \ {m}
        /\ filePrompt' = [filePrompt EXCEPT ![p] = m]
        /\ pc' = [pc EXCEPT ![p] = "prompt_offer"]
        /\ UNCHANGED <<own_nickname, roomVars, tableVars, queryVars, kadEvents, dht,
                       netVars, budget, histVars, disk, nextRequest, hResponses,
                       hSent>>

\* Variant: every line taken for y.
OfferAcceptedAlways(response) == TRUE

\* if response == "n" { .. } else { .. } of the FileOffer arm
OfferAccepted(response) == response # "n"

\* Request FileOffer from the y/n line to the end of the handler:
\* FileOfferResponse(false) on n; on y FileOfferResponse(true) and, when that
\* send returned Ok, File::create(..).unwrap() and write_all.
AnswerFileOffer(p) ==
    \E response \in {"y", "n"}, sent \in BOOLEAN, created \in BOOLEAN :
        \E written \in Prefixes(filePrompt[p].data) :
            LET m == filePrompt[p]
                answer == FileOfferResponse(m, OfferAccepted(response))
                saves == OfferAccepted(response) /\ sent
            IN /\ pc[p] = "prompt_offer"
               /\ fileNet' = IF sent THEN fileNet \cup {answer} ELSE fileNet
               /\ hSent' = hSent \cup {Sent(m, response, answer, sent)}
               /\ disk' = IF saves /\ created
                          THEN [disk EXCEPT ![p] = insert(@, OfferedName(m.filename), written)]
                          ELSE disk
               /\ pc' = [pc EXCEPT ![p] = IF saves /\ ~created
                                          THEN "crashed" ELSE "running"]
               /\ filePrompt' = [filePrompt EXCEPT ![p] = NoFileMsg]
               /\ UNCHANGED <<own_nickname, roomVars, tableVars, queryVars, kadEvents,
                              dht, netVars, budget, histVars, nextRequest, hResponses>>

\* --------------------------------------------------------- specifications
\* The /connect negotiation: registration, /connect, the DHT, the invite and
\* its answer.
Init == Start(Budget(MaxConnect, 0, 0, 0, MaxConnect, MaxFound))

Next ==
    \E p \in Peers :
        \/ Register(p)
        \/ Connect(p)
        \/ DhtFound(p)
        \/ DhtFail(p)
        \/ handle_kademlia_event(p)
        \/ ReceiveInvite(p)
        \/ AnswerInvite(p)
        \/ ReceiveRoomResponse(p)

Spec == Init /\ [][Next]_vars

\* The negotiation under fairness: every lookup in flight yields a result
\* event, the loop handles every event and message that waits for it, every
\* prompt is answered and the answer to an invite reaches the initiator.
Fairness ==
    \A p \in Peers :
        /\ WF_vars(DhtFound(p) \/ DhtFail(p))
        /\ WF_vars(handle_kademlia_event(p))
        /\ WF_vars(ReceiveInvite(p))
        /\ WF_vars(AnswerInvite(p) /\ net' # net)
        /\ WF_vars(ReceiveRoomResponse(p))

SpecFair == Init /\ [][Next]_vars /\ Fairness

\* Rooms: the negotiation together with /leave and its rating prompt.
InitRooms == Start(Budget(RoomConnect, RoomLeave, 0, 0, RoomConnect + RoomLeave, RoomFound))

NextRooms ==
    \E p \in Peers :
        \/ Register(p)
        \/ Connect(p)
        \/ Leave(p)
        \/ RateAnswer(p)
        \/ DhtFound(p)
        \/ DhtFail(p)
        \/ handle_kademlia_event(p)
        \/ ReceiveInvite(p)
        \/ AnswerInvite(p)
        \/ ReceiveRoomResponse(p)

SpecRooms == InitRooms /\ [][NextRooms]_vars

\* The three pending tables side by side, each lookup answered by several
\* replicas: chat messages, /connect and rating updates.
InitKad == Start(Budget(KadCommands, 0, KadCommands, KadCommands, KadCommands, KadFound))

NextKad ==
    \E p \in Peers :
        \/ Register(p)
        \/ Connect(p)
        \/ Publish(p)
        \/ handle_chat_event(p)
        \/ UpdatePeerRating(p)
        \/ DhtFound(p)
        \/ DhtFail(p)
        \/ handle_kademlia_event(p)

SpecKad == InitKad /\ [][NextKad]_vars

\* Reputation: registration, update_peer_rating, the DHT and /exit.
InitRating == Start(Budget(0, 0, 0, RatingUpdate, RatingUpdate, RatingFound))

NextRating ==
    \E p \in Peers :
        \/ Register(p)
        \/ UpdatePeerRating(p)
        \/ DhtFound(p)
        \/ DhtFail(p)
        \/ handle_kademlia_event(p)
        \/ Exit(p)

SpecRating == InitRating /\ [][NextRating]_vars

\* File exchange in a private room.  The room is the one Spec ends in when p1
\* (nickname a) typed "/connect b" and p2 (nickname b) answered y.
Directories == [Peers -> {EmptyMap} \cup {insert(EmptyMap, f, c) : f \in FileNames, c \in Contents}]

InRoom(b) ==
    LET room == RoomId(<<"a">>, <<"b">>, "p1", "p2", 1)
    IN /\ budget = b
       /\ pc = [p \in Peers |-> "running"]
       /\ own_nickname = [p \in Peers |-> IF p = "p1" THEN <<"a">> ELSE <<"b">>]
       /\ topic = [p \in Peers |-> room]
       /\ subs = [p \in Peers |-> {room}]
       /\ pending_messages = [p \in Peers |-> EmptyMap]
       /\ pending_connections = [p \in Peers |-> EmptyMap]
       /\ pending_rating_update = [p \in Peers |-> EmptyMap]
       /\ nextQuery = [p \in Peers |-> IF p = "p1" THEN 3 ELSE 1]
       /\ queries = [p \in Peers |-> {}]
       /\ issued = [p \in Peers |-> NoCall]
       /\ kadEvents = [p \in Peers |-> {}]
       /\ dht = [k \in Keys |->
                   IF k = PeerKey("p1") THEN PeerDataBytes(<<"a">>, InitialRating)
                   ELSE IF k = PeerKey("p2") THEN PeerDataBytes(<<"b">>, InitialRating)
                   ELSE IF k = ReverseKey(<<"a">>) THEN PeerIdBytes("p1")
                   ELSE IF k = ReverseKey(<<"b">>) THEN PeerIdBytes("p2")
                   ELSE InitialStore[k]]
       /\ net = {}
       /\ gossip = {}
       /\ prompt = [p \in Peers |-> NoMsg]
       /\ nextUuid = 2
       /\ hResume = [p \in Peers |->
                       IF p = "p1"
                       THEN insert(insert(EmptyMap, 1, <<"peer_data_lookup">>),
                                   2, <<"request_sent">>)
                       ELSE EmptyMap]
       /\ hUpdates = <<>>
       /\ fileNet = {}
       /\ filePrompt = [p \in Peers |-> NoFileMsg]
       /\ nextRequest = [p \in Peers |-> 1]
       /\ hResponses = {}
       /\ hSent = {}

InitFiles == InRoom(Budget(0, 0, 0, 0, 0, MaxFound)) /\ disk \in Directories

NextFiles ==
    \E p \in Peers :
        \/ Request(p)
        \/ ReceiveFileRequest(p)
        \/ AnswerFileRequest(p)
        \/ ReceiveFileResponse(p)

SpecFiles == InitFiles /\ [][NextFiles]_vars

\* The three kinds of lookup over a DHT whose records may not decode.  The
\* records overwritten are those a lookup of this specification can read.
ReadKeys == {PeerKey(p) : p \in Peers \cup Relays} \cup {ReverseKey(n) : n \in ConnectNames}

InitDecode ==
    Start(Budget(DecodeCommands, 0, DecodeCommands, DecodeCommands, DecodeCommands,
                 DecodeFound))

NextDecode ==
    \/ \E p \in Peers :
            \/ Register(p)
            \/ Connect(p)
            \/ Publish(p)
            \/ handle_chat_event(p)
            \/ UpdatePeerRating(p)
            \/ DhtFound(p)
            \/ DhtFail(p)
            \/ handle_kademlia_event(p)
    \/ \E k \in ReadKeys : ForeignPut(k)

SpecDecode == InitDecode /\ [][NextDecode]_vars

\* Leaving and connecting again, from the same private room.
InitLeave ==
    /\ InRoom(Budget(LeaveCommands, LeaveCommands, 0, 0, LeaveCommands, LeaveFound))
    /\ disk = [p \in Peers |-> EmptyMap]

NextLeave ==
    \E p \in Peers :
        \/ Connect(p)
        \/ Leave(p)
        \/ RateAnswer(p)
        \/ DhtFound(p)
        \/ DhtFail(p)
        \/ handle_kademlia_event(p)
        \/ ReceiveInvite(p)
        \/ AnswerInvite(p)
        \/ ReceiveRoomResponse(p)

SpecLeave == InitLeave /\ [][NextLeave]_vars

\* The negotiation followed by file requests in the room it ends in.
InitPull == Start(Budget(MaxConnect, 0, 0, 0, MaxConnect, MaxFound))

NextPull ==
    \E p \in Peers :
        \/ Register(p)
        \/ Connect(p)
        \/ DhtFound(p)
        \/ DhtFail(p)
        \/ handle_kademlia_event(p)
        \/ ReceiveInvite(p)
        \/ AnswerInvite(p)
        \/ ReceiveRoomResponse(p)
        \/ Request(p)
        \/ ReceiveFileRequest(p)
        \/ AnswerFileRequest(p)
        \/ ReceiveFileResponse(p)

SpecPull == InitPull /\ [][NextPull]_vars

\* File offers arriving from the network.
InitOffer == Start(Budget(0, 0, 0, 0, 0, MaxFound))

NextOffer ==
    \E p \in Peers :
        \/ Register(p)
        \/ ForeignOffer(p)
        \/ ReceiveFileOffer(p)
        \/ AnswerFileOffer(p)

SpecOffer == InitOffer /\ [][NextOffer]_vars

\* Rooms with a node outside Peers: its reverse index entry is in the DHT and
\* it answers the invites it gets.
InitThird == Start(Budget(ThirdConnect, 0, 0, 0, ThirdConnect, MaxFound))

NextThird ==
    \/ \E p \in Peers :
            \/ Register(p)
            \/ Connect(p)
            \/ ConnectRelay(p)
            \/ DhtFound(p)
            \/ DhtFail(p)
            \/ handle_kademlia_event(p)
            \/ ReceiveInvite(p)
            \/ AnswerInvite(p)
            \/ ReceiveRoomResponse(p)
    \/ \E r \in Relays : RelayAnswer(r)

SpecThird == InitThird /\ [][NextThird]_vars

\* The state after p1 registered as a and p2 as b, both in the default room,
\* and the update_peer_rating calls of updates were made, their lookups still in
\* flight.
Registered(b, updates) ==
    /\ budget = b
    /\ pc = [p \in Peers |-> "running"]
    /\ own_nickname = [p \in Peers |-> IF p = "p1" THEN <<"a">> ELSE <<"b">>]
    /\ topic = [p \in Peers |-> DefaultTopic]
    /\ subs = [p \in Peers |-> {DefaultTopic}]
    /\ pending_messages = [p \in Peers |-> EmptyMap]
    /\ pending_connections = [p \in Peers |-> EmptyMap]
    /\ pending_rating_update =
           [p \in Peers |->
               [id \in {updates[i].id : i \in {j \in DOMAIN updates : updates[j].peer = p}} |->
                   updates[CHOOSE i \in DOMAIN updates :
                               updates[i].peer = p /\ updates[i].id = id].delta]]
    /\ nextQuery =
           [p \in Peers |-> 1 + Cardinality({i \in DOMAIN updates : updates[i].peer = p})]
    /\ queries =
           [p \in Peers |->
               {Query(updates[i].id, PeerKey(updates[i].target), 0) :
                    i \in {j \in DOMAIN updates : updates[j].peer = p}}]
    /\ issued = [p \in Peers |-> NoCall]
    /\ kadEvents = [p \in Peers |-> {}]
    /\ dht = [k \in Keys |->
                IF k = PeerKey("p1") THEN PeerDataBytes(<<"a">>, InitialRating)
                ELSE IF k = PeerKey("p2") THEN PeerDataBytes(<<"b">>, InitialRating)
                ELSE IF k = ReverseKey(<<"a">>) THEN PeerIdBytes("p1")
                ELSE IF k = ReverseKey(<<"b">>) THEN PeerIdBytes("p2")
                ELSE InitialStore[k]]
    /\ net = {}
    /\ gossip = {}
    /\ prompt = [p \in Peers |-> NoMsg]
    /\ nextUuid = 1
    /\ hResume = [p \in Peers |-> EmptyMap]
    /\ hUpdates = updates
    /\ fileNet = {}
    /\ filePrompt = [p \in Peers |-> NoFileMsg]
    /\ disk = [p \in Peers |-> EmptyMap]
    /\ nextRequest = [p \in Peers |-> 1]
    /\ hResponses = {}
    /\ hSent = {}

\* The three pending tables side by side: p1 has a rating update of p2 pending
\* when further commands of any kind are typed.
InitTables ==
    \E rating \in Ratings :
        Registered(Budget(TablesCommands, 0, TablesCommands, TablesCommands,
                          TablesCommands, TablesFound),
                   <<[peer |-> "p1", id |-> 1, target |-> "p2", delta |-> rating,
                      quiet |-> TRUE]>>)

NextTables ==
    \E p \in Peers :
        \/ Connect(p)
        \/ Publish(p)
        \/ handle_chat_event(p)
        \/ UpdatePeerRating(p)
        \/ DhtFound(p)
        \/ DhtFail(p)
        \/ handle_kademlia_event(p)

SpecTables == InitTables /\ [][NextTables]_vars

\* update_peer_rating statement by statement: results may arrive between the
\* get_record call and the insert.
InitIssue == Start(Budget(0, 0, 0, IssueUpdate, IssueUpdate, IssueFound))

NextIssue ==
    \E p \in Peers :
        \/ Register(p)
        \/ IssueRating(p)
        \/ InsertRating(p)
        \/ DhtFound(p)
        \/ DhtFail(p)
        \/ handle_kademlia_event(p)

SpecIssue == InitIssue /\ [][NextIssue]_vars

\* Reputation of a third node: both peers update the rating of the same record.
InitLinear == Start(Budget(0, 0, 0, LinearUpdate, LinearUpdate, LinearFound))

NextLinear ==
    \E p \in Peers :
        \/ Register(p)
        \/ UpdateRelayRating(p)
        \/ DhtFound(p)
        \/ DhtFail(p)
        \/ handle_kademlia_event(p)

SpecLinear == InitLinear /\ [][NextLinear]_vars

\* ------------------------------------------------------------ properties
AllTables(p) ==
    DOMAIN pending_messages[p] \cup DOMAIN pending_connections[p]
        \cup DOMAIN pending_rating_update[p]

\* The events handle_kademlia_event takes off p's queue in this step.
Handled(p) == kadEvents[p] \ kadEvents'[p]

IsInvite(m) == m.kind = "PrivateRoomRequest"

\* C1: for every query id registered in one of the three pending tables, over
\* any sequence of result events with that id (several FoundRecord events
\* included), the resume logic of the registered operation runs at most once:
\* once an event with the id has been handled the id is in none of the tables,
\* and every later event with it only reaches the fall-through branch.
C1_ResumeAtMostOnce ==
    \A p \in Peers : \A id \in DOMAIN hResume[p] :
        /\ id \notin AllTables(p)
        /\ \A i \in 2..Len(hResume[p][id]) : hResume[p][id][i] = "connected_peer"

C1_Witness ==
    \E p \in Peers : \E id \in DOMAIN hResume[p] :
        hResume[p][id] = <<"rating_updated", "connected_peer">>

\* C2: no PrivateRoomRequest in flight or being prompted about goes from a node
\* to itself; and when the reverse-index lookup of a /connect resolves to the
\* local PeerId, handling that result only drops the NicknameLookup entry: no
\* PeerData lookup is issued or registered and nothing is sent.
C2_SelfConnectAborts ==
    /\ [](\A m \in net \cup {prompt[p] : p \in Peers} : IsInvite(m) => m.from # m.to)
    /\ [][\A p \in Peers : \A ev \in Handled(p) :
            ( /\ ev.kind = "FoundRecord"
              /\ ev.id \in DOMAIN pending_connections[p]
              /\ pending_connections[p][ev.id].kind = "NicknameLookup"
              /\ ev.value = PeerIdBytes(p) )
            => /\ DOMAIN pending_connections'[p] = DOMAIN pending_connections[p] \ {ev.id}
               /\ nextQuery' = nextQuery
               /\ queries' = queries
               /\ net' = net]_vars

C2_Witness ==
    \E p \in Peers : \E id \in DOMAIN hResume[p] :
        hResume[p][id][1] = "connect_to_yourself"

\* C3: a node whose current topic changes to a private room (it answered y to
\* an invite, or handled the Accept of its own invite) is subscribed to the new
\* room and no longer subscribed to the room it occupied just before.
C3_LeavesPreviousRoom ==
    [][\A p \in Peers :
          (topic'[p] # topic[p] /\ topic'[p] # DefaultTopic)
          => (topic'[p] \in subs'[p] /\ topic[p] \notin subs'[p])]_vars

\* C4: in every reachable state a node is subscribed to exactly one topic, its
\* current topic.
C4_OneRoom == \A p \in Peers : subs[p] = {topic[p]}

\* C5: after a GetRecord error (NotFound or another error) for query id q has
\* been handled, q is in none of the three pending tables, and no lookup has
\* been issued again.
C5_ErrorDiscards ==
    [][\A p \in Peers : \A ev \in Handled(p) :
          ev.kind # "FoundRecord"
          => /\ ev.id \notin DOMAIN pending_messages'[p]
             /\ ev.id \notin DOMAIN pending_connections'[p]
             /\ ev.id \notin DOMAIN pending_rating_update'[p]
             /\ nextQuery' = nextQuery]_vars

\* C6: while a node waits for the answer to a prompt, a DHT event or a
\* request/response message that has arrived for it can be handled before the
\* console line arrives.
C6_ResponsiveDuringPrompt ==
    \A p \in Peers :
        pc[p] \in {"prompt_invite", "prompt_rating"}
        => /\ kadEvents[p] # {} => ENABLED handle_kademlia_event(p)
           /\ (\E m \in net : m.to = p /\ m.kind \in {"Accept", "Reject"})
                  => ENABLED ReceiveRoomResponse(p)

\* The update_peer_rating calls made for target t.
UpdatesOf(t) == {i \in DOMAIN hUpdates : hUpdates[i].target = t}

\* Calls i then j are +1 then -1 on the same target, the only two for it, and
\* both have written back.
PlusThenMinus(i, j) ==
    /\ i < j
    /\ hUpdates[i].target = hUpdates[j].target
    /\ hUpdates[i].delta = 1
    /\ hUpdates[j].delta = -1
    /\ UpdatesOf(hUpdates[i].target) = {i, j}
    /\ UpdateDone(hUpdates[i])
    /\ UpdateDone(hUpdates[j])

\* C7 as stated: +1 followed by -1 on the same target, with no other update of
\* it, leaves the stored rating at its original value however the two lookups'
\* results interleave with the two registrations.
C7_Restores ==
    \A i, j \in DOMAIN hUpdates :
        PlusThenMinus(i, j) => dht[PeerKey(hUpdates[i].target)].rating = InitialRating

\* C7: +1 followed by -1 on the same target, with no other update of it,
\* leaves the stored rating at its original value when the -1 update is
\* registered after the +1 update has written back.
C7_RestoresWhenSequential ==
    \A i, j \in DOMAIN hUpdates :
        (PlusThenMinus(i, j) /\ hUpdates[j].quiet)
        => dht[PeerKey(hUpdates[i].target)].rating = InitialRating

C7_Witness ==
    \E i, j \in DOMAIN hUpdates :
        /\ PlusThenMinus(i, j)
        /\ hUpdates[j].quiet
        /\ dht[PeerKey(hUpdates[i].target)].rating = 0

\* C8: registration stores a PeerRecord with rating 0 under the peer's key, and
\* a rating update that completes on a fetched PeerRecord with rating r writes,
\* under the key it read, a record with the same nickname and rating r + delta,
\* which is what the store then returns.
C8_RatingArithmetic ==
    [][/\ \A p \in Peers :
              (pc[p] = "start" /\ pc'[p] = "running")
              => dht'[PeerKey(p)] = PeerDataBytes(own_nickname'[p], 0)
       /\ \A p \in Peers : \A ev \in Handled(p) :
              ( /\ ev.kind = "FoundRecord"
                /\ ev.id \in DOMAIN pending_rating_update[p]
                /\ IsPeerData(ev.value)
                /\ pc'[p] = "running" )
              => dht'[ev.key] =
                     PeerDataBytes(ev.value.nickname,
                                   ev.value.rating + pending_rating_update[p][ev.id])]_vars

C8_Witness ==
    \E i \in DOMAIN hUpdates :
        /\ hUpdates[i].delta = 1
        /\ UpdateDone(hUpdates[i])
        /\ UpdatesOf(hUpdates[i].target) = {i}
        /\ dht[PeerKey(hUpdates[i].target)].rating = 1

\* C9: no node is ever terminated by an error; a node that is not running has
\* not started yet or was stopped by /exit.
C9_OnlyExitTerminates == \A p \in Peers : pc[p] \in {"start", "running", "exited"}

\* C10: every PrivateRoomRequest in flight goes from its initiator to the peer
\* T whose PeerRecord was fetched, names the initiator's nickname, and has the
\* room_id initiator_nickname-target_nickname-initiator_id-T-uuid with the
\* nickname of T's PeerRecord; it is sent only on handling the FoundRecord of
\* a PeerData lookup for T, which is registered only on handling the
\* FoundRecord that resolves a NicknameLookup to T, which is registered only by
\* a /connect typed in the default room.
C10_InviteChain ==
    /\ [](\A m \in net :
            IsInvite(m)
            => /\ m.initiator_nickname = own_nickname[m.from]
               /\ IsPeerData(dht[PeerKey(m.to)])
               /\ \E u \in 1..(nextUuid - 1) :
                      m.room_id = RoomId(own_nickname[m.from],
                                         dht[PeerKey(m.to)].nickname,
                                         m.from, m.to, u))
    /\ [][/\ \A m \in net' \ net :
                IsInvite(m)
                => \E ev \in Handled(m.from) :
                       /\ ev.kind = "FoundRecord"
                       /\ ev.id \in DOMAIN pending_connections[m.from]
                       /\ pending_connections[m.from][ev.id] =
                              ConnEntry("PeerData", m.to, own_nickname[m.from], m.from)
                       /\ ev.key = PeerKey(m.to)
                       /\ IsPeerData(ev.value)
                       /\ Split(m.room_id)[2] = ev.value.nickname
          /\ \A p \in Peers :
                \A id \in DOMAIN pending_connections'[p] \ DOMAIN pending_connections[p] :
                    IF pending_connections'[p][id].kind = "PeerData"
                    THEN \E ev \in Handled(p) :
                             /\ ev.kind = "FoundRecord"
                             /\ ev.id \in DOMAIN pending_connections[p]
                             /\ pending_connections[p][ev.id] =
                                    ConnEntry("NicknameLookup", NoPeer, own_nickname[p], p)
                             /\ ev.key \in {ReverseKey(n) : n \in ConnectNames}
                             /\ ev.value = PeerIdBytes(pending_connections'[p][id].other)
                             /\ pending_connections'[p][id] =
                                    ConnEntry("PeerData", pending_connections'[p][id].other,
                                              own_nickname[p], p)
                             /\ Query(id, PeerKey(pending_connections'[p][id].other), 0)
                                    \in queries'[p]
                    ELSE /\ pc[p] = "running"
                         /\ topic[p] = DefaultTopic
                         /\ budget'.connect = budget.connect - 1
                         /\ pending_connections'[p][id] =
                                ConnEntry("NicknameLookup", NoPeer, own_nickname[p], p)
                         /\ \E n \in ConnectNames :
                                Query(id, ReverseKey(n), 0) \in queries'[p]]_vars

C10_Witness ==
    \E m \in net : IsInvite(m) /\ Split(m.room_id)[4] = PeerIdToString(m.to)

\* C11: a recipient that answers an invite with Reject(room_id) sends it to the
\* initiator for the room it was asked about and changes neither its current
\* topic nor its subscriptions; an initiator that handles a Reject changes
\* neither its current topic nor its subscriptions.
C11_RejectChangesNoRoom ==
    [][/\ \A m \in net' \ net :
              m.kind = "Reject"
              => /\ pc[m.from] = "prompt_invite"
                 /\ m.to = prompt[m.from].from
                 /\ m.room_id = prompt[m.from].room_id
                 /\ topic' = topic
                 /\ subs' = subs
       /\ \A m \in net \ net' :
              m.kind = "Reject" => (topic' = topic /\ subs' = subs)]_vars

C11_Witness ==
    \E m \in net :
        /\ m.kind = "Reject"
        /\ topic[m.from] = DefaultTopic
        /\ topic[m.to] = DefaultTopic
        /\ subs[m.to] = {DefaultTopic}

\* The rooms Spec ends in hold the state SpecFiles starts from.
RoomReached ==
    InRoom(Budget(0, 0, 0, 0, 0, MaxFound)) /\ disk = [p \in Peers |-> EmptyMap]

\* C12: handling a FileResponse with an empty payload creates no file and
\* writes no bytes, whatever its filename and request id; a working directory
\* changes only on handling a FileResponse with a non-empty payload, and then
\* only in the file received_file_<filename>_<request id>.
C12_EmptyNeverPersisted ==
    [][/\ \A m \in fileNet \ fileNet' :
              (m.kind = "FileResponse" /\ m.data = <<>>) => disk' = disk
       /\ \A p \in Peers :
              disk'[p] # disk[p]
              => \E m \in fileNet \ fileNet' :
                     /\ m.kind = "FileResponse"
                     /\ m.to = p
                     /\ m.data # <<>>
                     /\ \A f \in DOMAIN disk[p] :
                            f # ReceivedName(m.filename, m.request_id)
                            => (f \in DOMAIN disk'[p] /\ disk'[p][f] = disk[p][f])
                     /\ DOMAIN disk'[p] =
                            DOMAIN disk[p] \cup {ReceivedName(m.filename, m.request_id)}]_vars

C12_Witness ==
    \E m \in hResponses :
        /\ m.data = <<>>
        /\ m.filename \in FileNames
        /\ ReceivedName(m.filename, m.request_id) \notin DOMAIN disk[m.to]
        /\ \E n \in hResponses : n.data = <<>> /\ n.filename = NoStr

\* C13: while a node's current topic is not the default room a /connect has no
\* effect: no step of the node registers a NicknameLookup or starts a lookup
\* of a reverse-index key.
C13_ConnectOnlyInDefault ==
    [][\A p \in Peers :
          topic[p] # DefaultTopic
          => /\ \A id \in DOMAIN pending_connections'[p] \ DOMAIN pending_connections[p] :
                    pending_connections'[p][id].kind # "NicknameLookup"
             /\ \A q \in queries'[p] \ queries[p] :
                    q.found = 0 => q.key \notin {ReverseKey(n) : n \in ConnectNames}]_vars

C13_Witness ==
    \E p \in Peers :
        /\ topic[p] # DefaultTopic
        /\ pc[p] = "running"
        /\ Left("connect")
        /\ ENABLED Connect(p)

\* C14: every rating update registered on /leave is for the PeerId of the
\* other participant of the room, never for the PeerId of the node that leaves.
C14_RatesOtherParticipant ==
    \A i \in DOMAIN hUpdates : hUpdates[i].target # hUpdates[i].peer

\* C15: a node sends a PrivateRoomRequest only while its own current topic is
\* the default room, and joins a room through an Accept response only from the
\* default room.
C15_InviteOnlyFromDefault ==
    [][/\ \A m \in net' \ net : IsInvite(m) => topic[m.from] = DefaultTopic
       /\ \A m \in net \ net' :
              (m.kind = "Accept" /\ topic'[m.to] = m.room_id)
              => topic[m.to] = DefaultTopic]_vars

\* C17: the identity registered with a received broadcast message, whose
\* PeerRecord is looked up, is the peer that published the message.
C17_LookupOfPublisher ==
    \A p \in Peers : \A id \in DOMAIN pending_messages[p] :
        pending_messages[p][id].peer = pending_messages[p][id].source

\* The lines of a resume log that print a chat message.
Printed(log) == {i \in 1..Len(log) : log[i] \in {"message", "message_raw"}}

\* C16: a received broadcast message is printed when the first result of its
\* sender lookup is handled, and never again: with nickname and rating when the
\* result is a FoundRecord whose value decodes as a PeerRecord, with the raw
\* identity when the value does not decode or the lookup ended in NotFound or
\* another error.
C16_PrintedOnce ==
    /\ [](\A p \in Peers : \A id \in DOMAIN hResume[p] :
              Cardinality(Printed(hResume[p][id])) <= 1)
    /\ [][\A p \in Peers : \A ev \in Handled(p) :
              ev.id \in DOMAIN pending_messages[p]
              => /\ ev.id \notin DOMAIN pending_messages'[p]
                 /\ hResume'[p][ev.id] =
                        <<IF ev.kind = "FoundRecord" /\ ev.value.kind = "PeerData"
                          THEN "message" ELSE "message_raw">>]_vars

C16_Witness ==
    \E p \in Peers : \E id \in DOMAIN hResume[p] :
        hResume[p][id] = <<"message", "connected_peer">>

\* C19: when the value found for a NicknameLookup does not decode as a PeerId,
\* or the value found for a PeerData lookup does not decode as a PeerRecord,
\* handling the result removes the entry and does nothing else: no lookup is
\* started, no entry registered and no request sent.
C19_DecodeFailureAborts ==
    [][\A p \in Peers : \A ev \in Handled(p) :
          ( /\ ev.kind = "FoundRecord"
            /\ ev.id \in DOMAIN pending_connections[p]
            /\ \/ /\ pending_connections[p][ev.id].kind = "NicknameLookup"
                  /\ ev.value.kind # "PeerId"
               \/ /\ pending_connections[p][ev.id].kind = "PeerData"
                  /\ ev.value.kind # "PeerData" )
          => /\ DOMAIN pending_connections'[p] = DOMAIN pending_connections[p] \ {ev.id}
             /\ nextQuery' = nextQuery
             /\ queries' = queries
             /\ net' = net]_vars

C19_Witness ==
    \E p \in Peers : \E id \in DOMAIN hResume[p] :
        /\ hResume[p][id][1] = "invalid_peer_data"
        /\ id \notin DOMAIN pending_connections[p]
        /\ net = {}

\* C20: when the value fetched for a rating update does not decode as a
\* PeerRecord, handling the result removes the RatingUpdate entry and does
\* nothing else: the DHT is not written, no lookup is started again and the
\* node keeps running.
C20_UndecodableRatingDropped ==
    [][\A p \in Peers : \A ev \in Handled(p) :
          ( /\ ev.kind = "FoundRecord"
            /\ ev.id \in DOMAIN pending_rating_update[p]
            /\ ev.value.kind # "PeerData" )
          => /\ DOMAIN pending_rating_update'[p] = DOMAIN pending_rating_update[p] \ {ev.id}
             /\ dht' = dht
             /\ nextQuery' = nextQuery
             /\ queries' = queries
             /\ pc' = pc]_vars

C20_Witness ==
    \E p \in Peers : \E id \in DOMAIN hResume[p] :
        /\ hResume[p][id][1] = "rating_error"
        /\ id \notin DOMAIN pending_rating_update[p]

\* C18: the rating prompt of /leave is only reached from a private room, and
\* when /leave completes the current topic is the default topic, the node is
\* subscribed to it and no longer to the room it left; a rating update is
\* registered only at that point, so a /leave typed in the default room, which
\* never reaches the prompt, registers none.
C18_LeaveReturnsToDefault ==
    /\ [](\A p \in Peers : pc[p] = "prompt_rating" => topic[p] # DefaultTopic)
    /\ [][/\ \A p \in Peers :
               (pc[p] = "prompt_rating" /\ pc'[p] = "running")
               => /\ topic'[p] = DefaultTopic
                  /\ DefaultTopic \in subs'[p]
                  /\ topic[p] \notin subs'[p]
          /\ hUpdates' # hUpdates
               => /\ Len(hUpdates') = Len(hUpdates) + 1
                  /\ pc[hUpdates'[Len(hUpdates')].peer] = "prompt_rating"]_vars

C18_Witness ==
    \E i \in DOMAIN hUpdates :
        LET p == hUpdates[i].peer
        IN /\ pc[p] = "running"
           /\ topic[p] = DefaultTopic
           /\ subs[p] = {DefaultTopic}
           /\ ENABLED Leave(p)

\* Calls i and j come from different peers and are for the same target.
Concurrent(i, j) ==
    /\ i \in DOMAIN hUpdates
    /\ j \in DOMAIN hUpdates
    /\ hUpdates[i].peer # hUpdates[j].peer
    /\ hUpdates[i].target = hUpdates[j].target

\* Both calls have written back and no other call is for the target.
BothWritten(i, j) ==
    /\ Concurrent(i, j)
    /\ UpdatesOf(hUpdates[i].target) = {i, j}
    /\ UpdateDone(hUpdates[i])
    /\ UpdateDone(hUpdates[j])

\* C21: two rating updates of the same target by different peers are not
\* linearizable.  When both reads completed before either write, the second
\* write-back handles a result read before the first one wrote (its value is
\* the initial record, no longer the stored one); the rating it stores is the
\* rating read plus its own delta, which is not the sum of the two deltas.
C21_LostUpdate ==
    [][\A i, j \in DOMAIN hUpdates : \A ev \in Handled(hUpdates[j].peer) :
          ( /\ Concurrent(i, j)
            /\ UpdatesOf(hUpdates[i].target) = {i, j}
            /\ UpdateDone(hUpdates[i])
            /\ ev.id = hUpdates[j].id
            /\ ev.kind = "FoundRecord"
            /\ ev.id \in DOMAIN pending_rating_update[hUpdates[j].peer]
            /\ ev.value = PeerDataBytes(RelayNickname, InitialRating)
            /\ ev.value # dht[ev.key]
            /\ pc'[hUpdates[j].peer] = "running" )
          => /\ dht[ev.key].rating = InitialRating + hUpdates[i].delta
             /\ dht'[ev.key].rating = InitialRating + hUpdates[j].delta
             /\ dht'[ev.key].rating
                    # InitialRating + hUpdates[i].delta + hUpdates[j].delta]_vars

C21_Witness ==
    \E i, j \in DOMAIN hUpdates :
        /\ BothWritten(i, j)
        /\ hUpdates[i].delta = 1
        /\ hUpdates[j].delta = 1
        /\ dht[PeerKey(hUpdates[i].target)].rating = InitialRating + 1

\* The FileResponse the handler of FileRequest m owes after the user's line:
\* (vec![], "") on n or when the file cannot be opened, the file's bytes and the
\* requested path otherwise.
OwedResponse(m, line) ==
    IF line = "y" /\ m.filename \in DOMAIN disk[m.to]
    THEN FileMsg("FileResponse", m.to, m.from, m.filename, disk[m.to][m.filename],
                 m.request_id)
    ELSE FileMsg("FileResponse", m.to, m.from, NoStr, <<>>, m.request_id)

\* C22: each handled FileRequest gets exactly one FileResponse: the empty
\* response when the user answered n or the named file cannot be opened, the
\* file's bytes with the requested path when the user answered y and the file
\* opens; while the prompt waits for a valid line no response is produced.
C22_OneResponse ==
    /\ \A h \in hSent :
           h.request.kind = "FileRequest"
           => /\ h.ok
              /\ h.response = OwedResponse(h.request, h.line)
              /\ \A g \in hSent : g.request = h.request => g = h
    /\ \A p \in Peers :
           pc[p] = "prompt_file" => \A h \in hSent : h.request # filePrompt[p]

\* The PeerIds a room id names, as strings: its third and fourth parts.
Participants(room_id) == {Split(room_id)[3], Split(room_id)[4]}

\* C23: a FileRequest is sent only by a node whose current topic is a private
\* room; it goes to the other participant of that room, never to the sender
\* itself, and names its sender as requester.
C23_RequestToOtherParticipant ==
    [][\A m \in fileNet' \ fileNet :
          m.kind = "FileRequest"
          => /\ pc[m.from] = "running"
             /\ topic[m.from] # DefaultTopic
             /\ PeerIdToString(m.to) \in Participants(topic[m.from])
             /\ m.to # m.from]_vars

\* C24: for each handled FileOffer exactly one FileOfferResponse is attempted,
\* true iff the user answered y, and none while the prompt waits; a file is
\* written only in the step that handled an offer answered y whose
\* FileOfferResponse(true) send returned success, and then only the file
\* received_file_<filename> with bytes of the offer.
C24_OfferWrittenAfterSend ==
    /\ [](\A h \in hSent :
             h.request.kind = "FileOffer"
             => /\ h.response = FileOfferResponse(h.request, h.line = "y")
                /\ \A g \in hSent : g.request = h.request => g = h)
    /\ [](\A p \in Peers :
             pc[p] = "prompt_offer" => \A h \in hSent : h.request # filePrompt[p])
    /\ [][\A p \in Peers :
             /\ (pc[p] = "prompt_offer" /\ pc'[p] # "prompt_offer")
                => \E h \in hSent' : hSent' \ hSent = {h} /\ h.request = filePrompt[p]
             /\ disk'[p] # disk[p]
                => \E h \in hSent' \ hSent :
                       /\ h.request = filePrompt[p]
                       /\ h.request.kind = "FileOffer"
                       /\ h.line = "y"
                       /\ h.ok
                       /\ h.response = FileOfferResponse(h.request, TRUE)
                       /\ disk'[p] \in
                              {insert(disk[p], OfferedName(h.request.filename), w) :
                                   w \in Prefixes(h.request.data)}]_vars

C24_Witness ==
    /\ \E h \in hSent :
           /\ h.request.kind = "FileOffer"
           /\ h.line = "y"
           /\ h.ok
           /\ h.request.data # <<>>
           /\ OfferedName(h.request.filename) \in DOMAIN disk[h.request.to]
           /\ disk[h.request.to][OfferedName(h.request.filename)] = h.request.data
    /\ \E h \in hSent :
           /\ h.request.kind = "FileOffer"
           /\ h.line = "y"
           /\ ~h.ok
           /\ disk[h.request.to] = EmptyMap

\* No step of a negotiation p started is outstanding: nothing registered,
\* no invite of p in flight or being prompted about, no answer on its way to p.
Settled(p) ==
    /\ pending_connections[p] = EmptyMap
    /\ \A m \in net \cup {prompt[q] : q \in Peers} : IsInvite(m) => m.from # p
    /\ \A m \in net : m.kind \in {"Accept", "Reject"} => m.to # p

\* C25: under fairness every /connect accepted in the default room leaves the
\* awaiting states: the initiator ends in the room, rejected or back to idle,
\* with no entry of the negotiation left in pending_connections.
C25_NegotiationEnds ==
    \A p \in Peers : (pending_connections[p] # EmptyMap) ~> Settled(p)

\* C26: the subscribers of a private room are among the two peers that
\* negotiated it.  Every invite names in its room_id the initiator that built
\* it and the target it is sent to; a node subscribes to a room only by
\* answering y to the invite it received for that room or by handling the
\* Accept of the invite it sent, and so every node subscribed to a room is one
\* of the two the room_id names.
C26_OnlyNegotiators ==
    /\ [](\A m \in net \cup {prompt[p] : p \in Peers} :
             IsInvite(m)
             => Participants(m.room_id) = {PeerIdToString(m.from), PeerIdToString(m.to)})
    /\ [](\A p \in Peers : \A room \in subs[p] \ {DefaultTopic} :
             PeerIdToString(p) \in Participants(room))
    /\ [][\A p \in Peers : \A room \in subs'[p] \ subs[p] :
             room # DefaultTopic
             => \/ /\ pc[p] = "prompt_invite"
                   /\ prompt[p].room_id = room
                   /\ prompt[p].to = p
                \/ \E m \in net \ net' :
                       /\ m.kind = "Accept"
                       /\ m.to = p
                       /\ m.room_id = room]_vars

\* p1 is in a room negotiated with the node outside Peers, p2 is not.
C26_Witness ==
    \E p \in Peers, r \in Relays : \E room \in subs[p] \ {DefaultTopic} :
        /\ Participants(room) = {PeerIdToString(p), PeerIdToString(r)}
        /\ \A q \in Peers \ {p} : pc[q] = "running" /\ room \notin subs[q]

\* p registers in this step.
Registers(p) == pc[p] = "start" /\ pc'[p] = "running"

\* C27: the DHT is written only by the two puts of registration (the
\* PeerRecord with rating 0 under the peer's key, the PeerId under the reverse
\* key of its nickname) and by the write-back of a rating update, which changes
\* only the record under the key that was read, keeps its nickname and changes
\* its rating alone.
C27_OnlyRegistrationAndRating ==
    [][dht' # dht
       => \/ \E p \in Peers :
                /\ Registers(p)
                /\ dht'[PeerKey(p)].kind = "PeerData"
                /\ dht'[PeerKey(p)].nickname = own_nickname'[p]
                /\ dht'[PeerKey(p)].rating = InitialRating
                /\ dht'[ReverseKey(own_nickname'[p])] = PeerIdBytes(p)
                /\ \A k \in Keys \ {PeerKey(p), ReverseKey(own_nickname'[p])} :
                       dht'[k] = dht[k]
          \/ \E p \in Peers : \E ev \in Handled(p) :
                /\ ev.kind = "FoundRecord"
                /\ ev.id \in DOMAIN pending_rating_update[p]
                /\ ev.id \notin DOMAIN pending_messages[p] \cup DOMAIN pending_connections[p]
                /\ ev.value.kind = "PeerData"
                /\ dht'[ev.key] = [ev.value EXCEPT !.rating = dht'[ev.key].rating]
                /\ dht'[ev.key].nickname = dht[ev.key].nickname
                /\ \A k \in Keys \ {ev.key} : dht'[k] = dht[k]]_vars

C27_Witness ==
    \E i \in DOMAIN hUpdates :
        LET t == hUpdates[i].target
        IN /\ UpdateDone(hUpdates[i])
           /\ dht[PeerKey(t)].nickname = own_nickname[t]
           /\ dht[PeerKey(t)].rating = -1
           /\ dht[ReverseKey(own_nickname[t])] = PeerIdBytes(t)

\* C28: in every reachable state a node's current topic is one of the topics it
\* is subscribed to, so a plain line is published to a room the node is in.
C28_TopicSubscribed == \A p \in Peers : topic[p] \in subs[p]

\* A node that left its room, was back in the default room and is now in
\* another room.
C28_Witness ==
    \E p \in Peers :
        /\ pc[p] = "running"
        /\ topic[p] \notin {DefaultTopic, RoomId(<<"a">>, <<"b">>, "p1", "p2", 1)}
        /\ topic[p] \in subs[p]
        /\ RoomId(<<"a">>, <<"b">>, "p1", "p2", 1) \notin subs[p]

\* C29: the key sets of pending_messages, pending_connections and
\* pending_rating_update are pairwise disjoint; an id enters a table only in the
\* step that issued its query, as the id get_record returned, and enters that
\* one table.
C29_TablesDisjoint ==
    /\ [](\A p \in Peers :
             /\ DOMAIN pending_messages[p] \cap DOMAIN pending_connections[p] = {}
             /\ DOMAIN pending_messages[p] \cap DOMAIN pending_rating_update[p] = {}
             /\ DOMAIN pending_connections[p] \cap DOMAIN pending_rating_update[p] = {})
    /\ [][\A p \in Peers :
             \A id \in (DOMAIN pending_messages'[p] \cup DOMAIN pending_connections'[p]
                            \cup DOMAIN pending_rating_update'[p]) \ AllTables(p) :
                 /\ id = nextQuery[p]
                 /\ nextQuery'[p] = id + 1
                 /\ \E k \in Keys : Query(id, k, 0) \in queries'[p]
                 /\ Cardinality({t \in {1, 2, 3} :
                        id \in DOMAIN (<<pending_messages', pending_connections',
                                          pending_rating_update'>>[t][p])}) = 1]_vars

\* A node with a /connect and a rating update pending, the PeerData lookup of
\* the /connect having been registered after the rating update.
C29_Witness ==
    \E p \in Peers :
        \E c \in DOMAIN pending_connections[p], r \in DOMAIN pending_rating_update[p] :
            /\ pending_connections[p][c].kind = "PeerData"
            /\ r < c

\* C30: the result event of a query is never handled before the query's id has
\* been inserted in its table, although get_record is called before the insert:
\* every event handled carries an id that is in a table or was resumed before,
\* and no event is handled between the two statements.
C30_RegisteredBeforeHandled ==
    [][\A p \in Peers :
          /\ \A ev \in Handled(p) : ev.id \in AllTables(p) \cup DOMAIN hResume[p]
          /\ pc[p] = "registering" => Handled(p) = {}]_vars

\* The result of a lookup has arrived while its id is not inserted yet.
C30_Witness ==
    \E p \in Peers : \E ev \in kadEvents[p] :
        /\ pc[p] = "registering"
        /\ ev.id = issued[p].query_id
        /\ ev.kind = "FoundRecord"
        /\ ev.id \notin AllTables(p)

====
